---- MODULE Spec2Model ----
(***************************************************************************)
(* One-shot differentiable NAS (nni.retiarii.oneshot.pytorch):             *)
(*   - the two train/val batch suppliers of utils.py,                      *)
(*   - module replacement and the architecture-optimizer factories,        *)
(*   - the two-phase training step of DartsModel / ProxylessModel.         *)
(*                                                                         *)
(* A data stream is modelled by its length; its k-th batch (0-based) is    *)
(* the pair <<name of the stream, k>>.  An iterator over a stream is the   *)
(* record [loader, pos]: next() yields batch pos and advances, and raises  *)
(* StopIteration once pos has reached the length of the stream.            *)
(***************************************************************************)
EXTENDS Integers, Sequences, FiniteSets, TLC

\* ---------------------------------------------------------------- bounds
MaxLen == 3        \* longest train / validation stream
MaxIters == 2      \* __iter__ calls on one batch supplier
NumNodes == 2      \* choice nodes in the model graph
MaxSteps == 2      \* outer training steps (calls of training_step)
NumWOpt == 2       \* externally configured weight optimizers
CandCounts == {2, 3}    \* candidate counts of a choice node
ChosenCounts == {1, 2}  \* n_chosen of an input choice
MaxCalls == 5      \* method calls made on one choice module
MaxDepth == 2      \* nesting depth of a value given to to_device
MaxWidth == 2      \* elements of an innermost tuple, list or dict

VARIABLES
    \* ---- batch suppliers (utils.py)
    train_dataloader,   \* length of the train stream
    val_dataloader,     \* length of the validation stream
    equal_len,          \* InterleavedTrainValDataLoader.equal_len
    train_longer,       \* InterleavedTrainValDataLoader.train_longer
    train_iter,         \* InterleavedTrainValDataLoader.train_iter
    val_iter,           \* InterleavedTrainValDataLoader.val_iter
    cur_iter,           \* ConcatenateTrainValDataLoader.cur_iter
    source,             \* ConcatenateTrainValDataLoader.source
    yielded,            \* what next() has returned since the last __iter__
    stopped,            \* the last next() raised StopIteration
    iters,              \* number of __iter__ calls so far
    policy,             \* "interleaved" / "concat": the class of the supplier
    prevRun,            \* what the iteration ended by the last __iter__ had done
    \* ---- model graph and one-shot module (differentiable.py)
    variant,            \* "darts" (DartsModel) or "proxyless" (ProxylessModel)
    w_holds_arch,       \* weight optimizer 1 was built over model.parameters()
    kind,               \* node -> "layer" (LayerChoice) / "input" (InputChoice)
    label,              \* node -> label (key) of the choice
    n_candidates,       \* node -> number of candidates
    n_chosen,           \* node -> n_chosen (1 for a layer choice)
    parent,             \* node -> the layer choice whose candidate holds it (0: none)
    nas_modules,        \* registry: list of <<label, node>>
    alphaRef,           \* node -> the storage its .alpha attribute refers to
    alpha,              \* storage -> value of the architecture parameter
    alphaGrad,          \* storage -> alpha.grad (NoneGrad, or its contributions)
    binary_gates,       \* node -> _binary_gates value (sampled-path modules)
    gateGrad,           \* node -> _binary_gates.grad
    sampled,            \* node -> self.sampled (-1 is None)
    ctxActive,          \* node -> active_id captured by a forward awaiting backward
    ctrl_optim,         \* parameter list of the architecture optimizer
    wVal,               \* weight optimizer -> value of its operation weights
    wGrad,              \* weight optimizer -> .grad of its operation weights
    loss,               \* batch the current loss was computed from
    batch_idx,          \* outer steps completed
    pc,                 \* position: setup stage, or next operation of the step
    trace,              \* operations executed by the current training_step call
    phaseLog,           \* phases started since training began
    resampleCalls,      \* node -> resample() calls made by the current step
    \* ---- one call of a method of a choice module, or of to_device
    training,           \* nn.Module.training of the module
    lastCall,           \* the last call: method, argument, outcome, result
    opCalls,            \* candidate -> times the last forward / backward ran it
    budget,             \* calls made so far
    obj                 \* the value to_device is given

loaderVars == <<train_dataloader, val_dataloader, equal_len, train_longer,
                train_iter, val_iter, cur_iter, source, yielded, stopped, iters,
                policy, prevRun>>

\* no iteration has been ended by an __iter__ yet
NoRun == [yielded |-> <<>>, stopped |-> FALSE]

graphVars == <<variant, w_holds_arch, kind, label, n_candidates, n_chosen,
               parent>>

callVars == <<training, lastCall, opCalls, budget, obj>>

\* no method has been called yet
NoCall == [method |-> "none"]

driverVars == <<graphVars, nas_modules, alphaRef, alpha, alphaGrad, binary_gates,
                gateGrad, sampled, ctxActive, ctrl_optim, wVal, wGrad, loss,
                batch_idx, pc, trace, phaseLog, resampleCalls, callVars>>

vars == <<loaderVars, driverVars>>

\* the one-shot module is not part of a run of a batch supplier alone
DriverIdle ==
    /\ variant = "none" /\ w_holds_arch = FALSE
    /\ kind = <<>> /\ label = <<>> /\ n_candidates = <<>> /\ n_chosen = <<>>
    /\ parent = <<>> /\ resampleCalls = <<>>
    /\ training = TRUE /\ lastCall = NoCall /\ opCalls = <<>> /\ budget = 0
    /\ obj = <<>>
    /\ nas_modules = <<>> /\ alphaRef = <<>> /\ alpha = <<>> /\ alphaGrad = <<>>
    /\ binary_gates = <<>> /\ gateGrad = <<>> /\ sampled = <<>> /\ ctxActive = <<>>
    /\ ctrl_optim = <<>> /\ wVal = <<>> /\ wGrad = <<>> /\ loss = <<>>
    /\ batch_idx = 0 /\ pc = "none" /\ trace = <<>> /\ phaseLog = <<>>

NoIter == [loader |-> "none", pos |-> 0]

Max(a, b) == IF a >= b THEN a ELSE b

\* len(dataloader): the stream behind an iterator
LenOf(loader) ==
    IF loader = "train" THEN train_dataloader
    ELSE IF loader = "val" THEN val_dataloader ELSE 0

\* iter(dataloader): a fresh iterator at the first batch
NewIter(loader) == [loader |-> loader, pos |-> 0]

\* next(it) on a stream iterator: [ok, it, item]; ok = FALSE is StopIteration
IterNextMutant(it) ==
    IF it.pos < LenOf(it.loader)
    THEN [ok |-> TRUE, it |-> [it EXCEPT !.pos = it.pos + 1],
          item |-> <<it.loader, it.pos>>]
    ELSE [ok |-> FALSE, it |-> [it EXCEPT !.pos = 0], item |-> <<"none", 0>>]

IterNext(it) ==
    IF it.pos < LenOf(it.loader)
    THEN [ok |-> TRUE, it |-> [it EXCEPT !.pos = it.pos + 1],
          item |-> <<it.loader, it.pos>>]
    ELSE [ok |-> FALSE, it |-> it, item |-> <<"none", 0>>]

\* ------------------------------------------ InterleavedTrainValDataLoader

\* __init__: the two flags are computed once from the lengths
InterleavedInit ==
    /\ train_dataloader \in 0..MaxLen
    /\ val_dataloader \in 0..MaxLen
    /\ equal_len = (train_dataloader = val_dataloader)
    /\ train_longer = (train_dataloader > val_dataloader)
    /\ train_iter = NoIter
    /\ val_iter = NoIter
    /\ cur_iter = NoIter
    /\ source = "none"
    /\ yielded = <<>>
    /\ stopped = FALSE
    /\ iters = 0
    /\ policy = "interleaved"
    /\ prevRun = NoRun
    /\ DriverIdle

\* __len__
InterleavedLen == Max(train_dataloader, val_dataloader)

\* the train stream is used up: stop (TRUE) or upsample it (FALSE)
TrainStops == equal_len \/ train_longer

\* the validation stream is used up: stop (TRUE) or upsample it (FALSE)
ValStopsMutant == TRUE
ValStops == ~train_longer

\* one side of __next__: next(it); on StopIteration either re-raise (stops)
\* or restart the stream and take its first batch (which raises again when
\* the stream is empty, after the new iterator has been stored)
SideNext(it, stops) ==
    LET r == IterNext(it) IN
    IF r.ok THEN r
    ELSE IF stops THEN r
    ELSE IterNext(NewIter(it.loader))

\* __next__: [raised, train_iter, val_iter, item]
InterleavedNextResult ==
    LET t == SideNext(train_iter, TrainStops) IN
    IF ~t.ok
    THEN [raised |-> TRUE, train_iter |-> t.it, val_iter |-> val_iter,
          item |-> <<>>]
    ELSE LET v == SideNext(val_iter, ValStops) IN
         IF ~v.ok
         THEN [raised |-> TRUE, train_iter |-> t.it, val_iter |-> v.it,
               item |-> <<>>]
         ELSE [raised |-> FALSE, train_iter |-> t.it, val_iter |-> v.it,
               item |-> <<t.item, v.item>>]

InterleavedIter ==
    /\ iters < MaxIters
    /\ train_iter' = NewIter("train")
    /\ val_iter' = NewIter("val")
    /\ yielded' = <<>>
    /\ stopped' = FALSE
    /\ iters' = iters + 1
    /\ prevRun' = [yielded |-> yielded, stopped |-> stopped]
    /\ UNCHANGED <<train_dataloader, val_dataloader, equal_len, train_longer,
                   cur_iter, source, policy>>
    /\ UNCHANGED driverVars

InterleavedNext ==
    /\ iters > 0
    /\ LET r == InterleavedNextResult IN
       /\ train_iter' = r.train_iter
       /\ val_iter' = r.val_iter
       /\ stopped' = r.raised
       /\ yielded' = IF r.raised THEN yielded ELSE Append(yielded, r.item)
    /\ UNCHANGED <<train_dataloader, val_dataloader, equal_len, train_longer,
                   cur_iter, source, iters, policy, prevRun>>
    /\ UNCHANGED driverVars

NextInterleaved == InterleavedIter \/ InterleavedNext

SpecInterleaved == InterleavedInit /\ [][NextInterleaved]_vars

\* C4: every pair the interleaved supplier yields is, at 0-based position i,
\* (train[i mod T], val[i mod V]) with both sides present; it never yields
\* more than max(T, V) pairs, and over two non-empty streams an iteration
\* that has signalled exhaustion has yielded all max(T, V) of them (the
\* longer stream is not truncated, the shorter one restarts).
C4_InterleavedPairs ==
    /\ Len(yielded) <= InterleavedLen
    /\ \A i \in 1..Len(yielded) :
          /\ train_dataloader > 0 /\ val_dataloader > 0
          /\ yielded[i] = << <<"train", (i - 1) % train_dataloader>>,
                             <<"val", (i - 1) % val_dataloader>> >>
    /\ (stopped /\ train_dataloader > 0 /\ val_dataloader > 0)
          => Len(yielded) = InterleavedLen

\* C4 witness: train stream of 2, validation stream of 3, iteration complete;
\* the third pair carries the restarted train stream's first batch.
C4_Witness ==
    /\ train_dataloader = 2 /\ val_dataloader = 3
    /\ stopped /\ Len(yielded) = 3
    /\ yielded[3] = << <<"train", 0>>, <<"val", 2>> >>

\* C5: once an iteration of the interleaved supplier has signalled
\* exhaustion it has yielded exactly its declared length max(T, V) pairs,
\* for all stream lengths T >= 0, V >= 0.
C5_YieldsDeclaredLength ==
    stopped => Len(yielded) = InterleavedLen

\* ------------------------------------------ ConcatenateTrainValDataLoader

ConcatInit ==
    /\ train_dataloader \in 0..MaxLen
    /\ val_dataloader \in 0..MaxLen
    /\ equal_len = FALSE
    /\ train_longer = FALSE
    /\ train_iter = NoIter
    /\ val_iter = NoIter
    /\ cur_iter = NoIter
    /\ source = "none"
    /\ yielded = <<>>
    /\ stopped = FALSE
    /\ iters = 0
    /\ policy = "concat"
    /\ prevRun = NoRun
    /\ DriverIdle

\* __len__
ConcatLen == train_dataloader + val_dataloader

\* the tag returned with a batch
ConcatTagMutant(src) == "train"
ConcatTag(src) == src

\* __next__ (it calls itself once after switching to the validation stream):
\* [raised, cur_iter, source, item]
RECURSIVE ConcatNextResult(_, _)
ConcatNextResult(it, src) ==
    LET r == IterNext(it) IN
    IF r.ok
    THEN [raised |-> FALSE, cur_iter |-> r.it, source |-> src,
          item |-> <<r.item, ConcatTag(src)>>]
    ELSE IF src = "train"
         THEN ConcatNextResult(NewIter("val"), "val")
         ELSE [raised |-> TRUE, cur_iter |-> r.it, source |-> src,
               item |-> <<>>]

ConcatIter ==
    /\ iters < MaxIters
    /\ cur_iter' = NewIter("train")
    /\ source' = "train"
    /\ yielded' = <<>>
    /\ stopped' = FALSE
    /\ iters' = iters + 1
    /\ prevRun' = [yielded |-> yielded, stopped |-> stopped]
    /\ UNCHANGED <<train_dataloader, val_dataloader, equal_len, train_longer,
                   train_iter, val_iter, policy>>
    /\ UNCHANGED driverVars

ConcatNext ==
    /\ iters > 0
    /\ LET r == ConcatNextResult(cur_iter, source) IN
       /\ cur_iter' = r.cur_iter
       /\ source' = r.source
       /\ stopped' = r.raised
       /\ yielded' = IF r.raised THEN yielded ELSE Append(yielded, r.item)
    /\ UNCHANGED <<train_dataloader, val_dataloader, equal_len, train_longer,
                   train_iter, val_iter, iters, policy, prevRun>>
    /\ UNCHANGED driverVars

NextConcat == ConcatIter \/ ConcatNext

SpecConcat == ConcatInit /\ [][NextConcat]_vars

\* C6: the concatenated supplier yields first the train batches in stream
\* order tagged 'train', then the validation batches in stream order tagged
\* 'val' (so no batch twice, no 'train' after 'val', the tag names the
\* stream of origin), and exactly T + V items once exhausted.
C6_ConcatOrder ==
    /\ Len(yielded) <= ConcatLen
    /\ \A i \in 1..Len(yielded) :
          yielded[i] = IF i <= train_dataloader
                       THEN << <<"train", i - 1>>, "train" >>
                       ELSE << <<"val", i - 1 - train_dataloader>>, "val" >>
    /\ stopped => Len(yielded) = ConcatLen

\* C6 witness: 2 train batches then 3 validation batches, iteration complete.
C6_Witness ==
    /\ train_dataloader = 2 /\ val_dataloader = 3
    /\ stopped /\ Len(yielded) = 5
    /\ yielded[3] = << <<"val", 0>>, "val" >>

\* ------------------------------------------------ either batch supplier

\* a supplier of either class over the same two streams
SupplierInit == InterleavedInit \/ ConcatInit

\* __iter__ of the supplier's class
SupplierIterMutant ==
    \/ /\ policy = "interleaved"
       /\ iters < MaxIters
       /\ train_iter' = NewIter("train")
       /\ val_iter' = IF iters = 0 THEN NewIter("val") ELSE val_iter
       /\ yielded' = <<>>
       /\ stopped' = FALSE
       /\ iters' = iters + 1
       /\ prevRun' = [yielded |-> yielded, stopped |-> stopped]
       /\ UNCHANGED <<train_dataloader, val_dataloader, equal_len, train_longer,
                      cur_iter, source, policy>>
       /\ UNCHANGED driverVars
    \/ policy = "concat" /\ ConcatIter

SupplierIter ==
    \/ policy = "interleaved" /\ InterleavedIter
    \/ policy = "concat" /\ ConcatIter

\* __next__ of the supplier's class
SupplierNext ==
    \/ policy = "interleaved" /\ InterleavedNext
    \/ policy = "concat" /\ ConcatNext

NextSupplier == SupplierIter \/ SupplierNext

SpecSupplier == SupplierInit /\ [][NextSupplier]_vars

\* ------------------------------------------------ model graph and modules

Nodes == 1..NumNodes
WOpts == 1..NumWOpt
Variants == {"darts", "proxyless"}

NoneGrad == {<<"None", 0>>}      \* a .grad that is None
NoLoss == <<"none", 0>>

Range(f) == {f[i] : i \in DOMAIN f}
SetMax(S) == IF S = {} THEN 0 ELSE CHOOSE x \in S : \A y \in S : y <= x
IndexOf(seq, x) ==
    IF \E j \in DOMAIN seq : seq[j] = x
    THEN CHOOSE j \in DOMAIN seq : seq[j] = x
    ELSE 0

\* tensors of length c are functions over 0..c-1
Size(v) == Cardinality(DOMAIN v)
Zeros(c) == [k \in 0..(c - 1) |-> 0]
OneHot(c, s) == [k \in 0..(c - 1) |-> IF k = s THEN 1 ELSE 0]

\* nn.Parameter(torch.randn(n) * 1e-3): every module draws its own values,
\* so two modules start from different alphas
InitAlpha(n, c) == OneHot(c, (n - 1) % c)

\* nn.Parameter(torch.randn(n) * 1e-3) for _binary_gates: small values, none 1
InitGates(c) == Zeros(c)

\* labels up to renaming: node n carries a label already used or the next one
LabelAssignments ==
    {l \in [Nodes -> Nodes] :
        \A n \in Nodes : l[n] <= 1 + SetMax({l[m] : m \in 1..(n - 1)})}

\* the module tree: a choice node is a child of the root module or sits in a
\* candidate of an earlier layer choice
Root == 0
ParentAssignments ==
    {p \in [Nodes -> {Root} \cup Nodes] : \A n \in Nodes : p[n] < n}

\* the graph as the user built it, before DartsModel / ProxylessModel wraps it
DriverInit ==
    /\ train_dataloader = 0 /\ val_dataloader = 0
    /\ equal_len = FALSE /\ train_longer = FALSE
    /\ train_iter = NoIter /\ val_iter = NoIter /\ cur_iter = NoIter
    /\ source = "none" /\ yielded = <<>> /\ stopped = FALSE /\ iters = 0
    /\ policy = "none" /\ prevRun = NoRun
    /\ variant \in Variants
    /\ w_holds_arch \in BOOLEAN
    /\ kind \in [Nodes -> {"layer", "input"}]
    /\ label \in LabelAssignments
    /\ n_candidates \in [Nodes -> CandCounts]
    /\ n_chosen \in [Nodes -> ChosenCounts]
    /\ \A n \in Nodes : kind[n] = "layer" => n_chosen[n] = 1
    /\ parent \in ParentAssignments
    /\ \A n \in Nodes : parent[n] # Root => kind[parent[n]] = "layer"
    /\ resampleCalls = [n \in Nodes |-> 0]
    /\ training = TRUE /\ lastCall = NoCall /\ opCalls = <<>> /\ budget = 0
    /\ obj = <<>>
    /\ nas_modules = <<>>
    /\ alphaRef = [n \in Nodes |-> n]
    /\ alpha = [n \in Nodes |-> <<>>]
    /\ alphaGrad = [n \in Nodes |-> NoneGrad]
    /\ binary_gates = [n \in Nodes |-> <<>>]
    /\ gateGrad = [n \in Nodes |-> NoneGrad]
    /\ sampled = [n \in Nodes |-> -1]
    /\ ctxActive = [n \in Nodes |-> -1]
    /\ ctrl_optim = <<>>
    /\ wVal = [g \in WOpts |-> 0]
    /\ wGrad = [g \in WOpts |-> NoneGrad]
    /\ loss = NoLoss
    /\ batch_idx = 0
    /\ pc = "new"
    /\ trace = <<>>
    /\ phaseLog = <<>>

\* the nodes of the registry, and the alpha read through a node
RegistryNodes == {nas_modules[i][2] : i \in DOMAIN nas_modules}
AlphaOf(n) == alpha[alphaRef[n]]

\* ------------------------------------------------------ module replacement

\* _replace_module_with_type, apply(m) over the children of m from node n
\* on: a child of the given kind is replaced and (child.key, module) appended,
\* and apply does not enter it; any other child is entered
RECURSIVE ReplaceModuleWithType(_, _, _, _)
ReplaceModuleWithType(type_name, modules, m, n) ==
    IF n > NumNodes THEN modules
    ELSE IF parent[n] # m
    THEN ReplaceModuleWithType(type_name, modules, m, n + 1)
    ELSE IF kind[n] = type_name
    THEN ReplaceModuleWithType(
             type_name, Append(modules, <<label[n], n>>), m, n + 1)
    ELSE ReplaceModuleWithType(
             type_name, ReplaceModuleWithType(type_name, modules, n, 1),
             m, n + 1)

\* replace_layer_choice, then replace_input_choice with the list it returned;
\* init_fn builds the variant's module for every replaced node
Replace ==
    /\ pc = "new"
    /\ nas_modules' = ReplaceModuleWithType(
                          "input",
                          ReplaceModuleWithType("layer", <<>>, Root, 1),
                          Root, 1)
    /\ alpha' = [n \in Nodes |-> InitAlpha(n, n_candidates[n])]
    /\ binary_gates' = [n \in Nodes |->
                          IF variant = "proxyless"
                          THEN InitGates(n_candidates[n]) ELSE <<>>]
    /\ pc' = "replaced"
    /\ UNCHANGED <<graphVars, alphaRef, alphaGrad, gateGrad, sampled, ctxActive,
                   ctrl_optim, wVal, wGrad, loss, batch_idx, trace, phaseLog, resampleCalls>>
    /\ UNCHANGED <<loaderVars, callVars>>

\* ------------------------------------------ architecture-optimizer factories

\* DartsModel.configure_architecture_optimizers, the loop from registry entry
\* i on.  st = [ok, ref, names, params]: ctrl_params is the insertion-ordered
\* dict names[j] -> params[j]; ok = FALSE once the size assertion has failed.
RECURSIVE DartsCtrlParams(_, _)
DartsCtrlParams(i, st) ==
    IF i > Len(nas_modules) \/ ~st.ok THEN st
    ELSE LET m == nas_modules[i][2]
             j == IndexOf(st.names, label[m])
         IN IF j > 0
            THEN IF Size(alpha[st.ref[m]]) = Size(alpha[st.params[j]])
                 THEN DartsCtrlParams(
                          i + 1, [st EXCEPT !.ref[m] = st.params[j]])
                 ELSE [st EXCEPT !.ok = FALSE]
            ELSE DartsCtrlParams(
                     i + 1,
                     [st EXCEPT !.names = Append(st.names, label[m]),
                                !.params = Append(st.params, st.ref[m])])

ConfigureDarts ==
    /\ pc = "replaced"
    /\ variant = "darts"
    /\ LET st == DartsCtrlParams(
                     1, [ok |-> TRUE, ref |-> alphaRef,
                         names |-> <<>>, params |-> <<>>])
       IN /\ alphaRef' = st.ref
          /\ ctrl_optim' = IF st.ok THEN st.params ELSE <<>>
          /\ pc' = IF st.ok THEN "ready" ELSE "failed"
    /\ UNCHANGED <<graphVars, nas_modules, alpha, alphaGrad, binary_gates,
                   gateGrad, sampled, ctxActive, wVal, wGrad, loss, batch_idx,
                   trace, phaseLog, resampleCalls>>
    /\ UNCHANGED <<loaderVars, callVars>>

\* ProxylessModel.configure_architecture_optimizers
ProxylessCtrlParams == [i \in DOMAIN nas_modules |-> alphaRef[nas_modules[i][2]]]

ConfigureProxyless ==
    /\ pc = "replaced"
    /\ variant = "proxyless"
    /\ ctrl_optim' = ProxylessCtrlParams
    /\ pc' = "ready"
    /\ UNCHANGED <<graphVars, nas_modules, alphaRef, alpha, alphaGrad,
                   binary_gates, gateGrad, sampled, ctxActive, wVal, wGrad,
                   loss, batch_idx, trace, phaseLog, resampleCalls>>
    /\ UNCHANGED <<loaderVars, callVars>>

\* ------------------------------------------------------- the training step

\* training_step, statement by statement: the position after p
StepOrder == <<"A_resample", "A_zero_grad", "A_forward", "A_backward", "A_step",
               "B_resample", "B_zero_grad", "B_forward", "B_backward", "B_step">>

NextPcMutant(p) ==
    IF p = "A_step" THEN "B_zero_grad"
    ELSE LET i == IndexOf(StepOrder, p) IN
         IF i = Len(StepOrder) THEN "ready" ELSE StepOrder[i + 1]

NextPc(p) ==
    LET i == IndexOf(StepOrder, p) IN
    IF i = Len(StepOrder) THEN "ready" ELSE StepOrder[i + 1]

\* the batch each forward pass is given: val_batch in the architecture phase,
\* trn_batch in the weight phase
BatchOf(p) == IF p = "A_forward" THEN "val" ELSE "train"

\* optimizer.zero_grad() on one parameter: a gradient that exists is zeroed
ZeroGradMutant(g) == g
ZeroGrad(g) == IF g = NoneGrad THEN NoneGrad ELSE {}

\* backward accumulates the contribution of loss t into a .grad
Accumulate(g, t) == IF g = NoneGrad THEN {t} ELSE g \cup {t}

\* optimizer.step() skips a parameter whose .grad is None
Steps(g) == g # NoneGrad

\* a value an optimizer step may leave in an architecture parameter
Bump(a) == [a EXCEPT ![0] = (a[0] + 1) % 2]

\* the alpha storages model.parameters() reaches
ModuleAlphas == {alphaRef[n] : n \in RegistryNodes}

\* lines 83-88: opts = self.optimizers(); trn_batch, val_batch = batch
TrainingStepCall ==
    /\ pc = "ready"
    /\ batch_idx < MaxSteps
    /\ pc' = StepOrder[1]
    /\ trace' = <<>>
    /\ resampleCalls' = [n \in Nodes |-> 0]
    /\ UNCHANGED <<graphVars, nas_modules, alphaRef, alpha, alphaGrad,
                   binary_gates, gateGrad, sampled, ctxActive, ctrl_optim, wVal,
                   wGrad, loss, batch_idx, phaseLog>>
    /\ UNCHANGED <<loaderVars, callVars>>

\* ProxylessLayerChoice.resample / ProxylessInputChoice.resample with drawn
\* index s: [sampled, gates, grad]
ResampleNode(c, s) == [sampled |-> s, gates |-> OneHot(c, s), grad |-> {}]

\* torch.multinomial(softmax(alpha), 1): any index has positive probability
SampleChoices ==
    {f \in [Nodes -> 0..(SetMax(CandCounts) - 1)] :
        \A n \in Nodes : f[n] < n_candidates[n]}

\* self.resample_architecture(): pass in DartsModel, m.resample() on every
\* registry module in ProxylessModel
ResampleArchitecture ==
    /\ pc \in {"A_resample", "B_resample"}
    /\ IF variant = "proxyless"
       THEN \E f \in SampleChoices :
               /\ sampled' = [n \in Nodes |->
                     IF n \in RegistryNodes
                     THEN ResampleNode(n_candidates[n], f[n]).sampled
                     ELSE sampled[n]]
               /\ binary_gates' = [n \in Nodes |->
                     IF n \in RegistryNodes
                     THEN ResampleNode(n_candidates[n], f[n]).gates
                     ELSE binary_gates[n]]
               /\ gateGrad' = [n \in Nodes |->
                     IF n \in RegistryNodes
                     THEN ResampleNode(n_candidates[n], f[n]).grad
                     ELSE gateGrad[n]]
       ELSE UNCHANGED <<sampled, binary_gates, gateGrad>>
    /\ phaseLog' = Append(phaseLog, IF pc = "A_resample" THEN "A" ELSE "B")
    /\ trace' = Append(trace, "resample")
    /\ pc' = NextPc(pc)
    /\ resampleCalls' = [n \in Nodes |->
                            IF variant = "proxyless" /\ n \in RegistryNodes
                            THEN resampleCalls[n] + 1 ELSE resampleCalls[n]]
    /\ UNCHANGED <<graphVars, nas_modules, alphaRef, alpha, alphaGrad, ctxActive,
                   ctrl_optim, wVal, wGrad, loss, batch_idx>>
    /\ UNCHANGED <<loaderVars, callVars>>

\* arc_optim.zero_grad()
ArcZeroGrad ==
    /\ pc = "A_zero_grad"
    /\ alphaGrad' = [s \in Nodes |->
                       IF s \in Range(ctrl_optim)
                       THEN ZeroGrad(alphaGrad[s]) ELSE alphaGrad[s]]
    /\ trace' = Append(trace, "arc_zero_grad")
    /\ pc' = NextPc(pc)
    /\ UNCHANGED <<graphVars, nas_modules, alphaRef, alpha, binary_gates,
                   gateGrad, sampled, ctxActive, ctrl_optim, wVal, wGrad, loss,
                   batch_idx, phaseLog, resampleCalls>>
    /\ UNCHANGED <<loaderVars, callVars>>

\* self.model.training_step(batch, ...): the loss of the given batch; a
\* sampled-path module captures its active_id for the backward pass
Forward ==
    /\ pc \in {"A_forward", "B_forward"}
    /\ loss' = <<BatchOf(pc), batch_idx>>
    /\ ctxActive' = [n \in Nodes |->
                       IF variant = "proxyless" /\ n \in RegistryNodes
                       THEN sampled[n] ELSE ctxActive[n]]
    /\ trace' = Append(trace, "forward_" \o BatchOf(pc))
    /\ pc' = NextPc(pc)
    /\ UNCHANGED <<graphVars, nas_modules, alphaRef, alpha, alphaGrad,
                   binary_gates, gateGrad, sampled, ctrl_optim, wVal, wGrad,
                   batch_idx, phaseLog, resampleCalls>>
    /\ UNCHANGED <<loaderVars, callVars>>

\* ProxylessInputChoice.forward's backward closure reads
\* self.num_input_candidates, which no code sets: AttributeError
BackwardRaises ==
    variant = "proxyless" /\ \E n \in RegistryNodes : kind[n] = "input"

\* self.manual_backward(loss): the mixture of DartsLayerChoice /
\* DartsInputChoice sends a gradient to alpha and to the operation weights;
\* _ArchGradientFunction sends binary_grads to _binary_gates and leaves
\* alpha alone
ManualBackward ==
    /\ pc \in {"A_backward", "B_backward"}
    /\ ~BackwardRaises
    /\ alphaGrad' = [s \in Nodes |->
                       IF variant = "darts" /\ s \in ModuleAlphas
                       THEN Accumulate(alphaGrad[s], loss) ELSE alphaGrad[s]]
    /\ gateGrad' = [n \in Nodes |->
                       IF variant = "proxyless" /\ n \in RegistryNodes
                       THEN Accumulate(gateGrad[n], loss) ELSE gateGrad[n]]
    /\ wGrad' = [g \in WOpts |-> Accumulate(wGrad[g], loss)]
    /\ ctxActive' = [n \in Nodes |-> -1]
    /\ trace' = Append(trace, "backward_" \o loss[1])
    /\ pc' = NextPc(pc)
    /\ UNCHANGED <<graphVars, nas_modules, alphaRef, alpha, binary_gates,
                   sampled, ctrl_optim, wVal, loss, batch_idx, phaseLog, resampleCalls>>
    /\ UNCHANGED <<loaderVars, callVars>>

\* the exception leaves training_step; the weights behind the failing module
\* in the graph have received their gradient, the others have not
ManualBackwardAbort ==
    /\ pc \in {"A_backward", "B_backward"}
    /\ BackwardRaises
    /\ \E S \in SUBSET WOpts :
          wGrad' = [g \in WOpts |->
                      IF g \in S THEN Accumulate(wGrad[g], loss) ELSE wGrad[g]]
    /\ pc' = "aborted"
    /\ UNCHANGED <<graphVars, nas_modules, alphaRef, alpha, alphaGrad,
                   binary_gates, gateGrad, sampled, ctxActive, ctrl_optim, wVal,
                   loss, batch_idx, trace, phaseLog, resampleCalls>>
    /\ UNCHANGED <<loaderVars, callVars>>

\* arc_optim.step()
ArcStep ==
    /\ pc = "A_step"
    /\ \E upd \in SUBSET Range(ctrl_optim) :
          alpha' = [s \in Nodes |->
                      IF s \in upd /\ Steps(alphaGrad[s])
                      THEN Bump(alpha[s]) ELSE alpha[s]]
    /\ trace' = Append(trace, "arc_step")
    /\ pc' = NextPc(pc)
    /\ UNCHANGED <<graphVars, nas_modules, alphaRef, alphaGrad, binary_gates,
                   gateGrad, sampled, ctxActive, ctrl_optim, wVal, wGrad, loss,
                   batch_idx, phaseLog, resampleCalls>>
    /\ UNCHANGED <<loaderVars, callVars>>

\* for opt in w_optim: opt.zero_grad().  An optimizer built over
\* model.parameters() also holds every alpha and every _binary_gates.
WZeroGrad ==
    /\ pc = "B_zero_grad"
    /\ wGrad' = [g \in WOpts |-> ZeroGrad(wGrad[g])]
    /\ alphaGrad' = [s \in Nodes |->
                       IF w_holds_arch /\ s \in ModuleAlphas
                       THEN ZeroGrad(alphaGrad[s]) ELSE alphaGrad[s]]
    /\ gateGrad' = [n \in Nodes |->
                       IF w_holds_arch /\ variant = "proxyless"
                          /\ n \in RegistryNodes
                       THEN ZeroGrad(gateGrad[n]) ELSE gateGrad[n]]
    /\ trace' = Append(trace, "w_zero_grad")
    /\ pc' = NextPc(pc)
    /\ UNCHANGED <<graphVars, nas_modules, alphaRef, alpha, binary_gates,
                   sampled, ctxActive, ctrl_optim, wVal, loss, batch_idx,
                   phaseLog, resampleCalls>>
    /\ UNCHANGED <<loaderVars, callVars>>

\* for opt in w_optim: opt.step(); return w_step_loss
WStep ==
    /\ pc = "B_step"
    /\ wVal' = [g \in WOpts |->
                  IF Steps(wGrad[g]) THEN (wVal[g] + 1) % 2 ELSE wVal[g]]
    /\ \E upd \in SUBSET ModuleAlphas :
          alpha' = [s \in Nodes |->
                      IF w_holds_arch /\ s \in upd /\ Steps(alphaGrad[s])
                      THEN Bump(alpha[s]) ELSE alpha[s]]
    /\ \E moved \in BOOLEAN :
          binary_gates' = [n \in Nodes |->
                      IF /\ w_holds_arch /\ variant = "proxyless" /\ moved
                         /\ n \in RegistryNodes /\ Steps(gateGrad[n])
                      THEN [binary_gates[n] EXCEPT
                               ![sampled[n]] = binary_gates[n][sampled[n]] - 1]
                      ELSE binary_gates[n]]
    /\ trace' = Append(trace, "w_step")
    /\ batch_idx' = batch_idx + 1
    /\ pc' = NextPc(pc)
    /\ UNCHANGED <<graphVars, nas_modules, alphaRef, alphaGrad, gateGrad,
                   sampled, ctxActive, ctrl_optim, wGrad, loss, phaseLog, resampleCalls>>
    /\ UNCHANGED <<loaderVars, callVars>>

Next ==
    \/ Replace
    \/ ConfigureDarts
    \/ ConfigureProxyless
    \/ TrainingStepCall
    \/ ResampleArchitecture
    \/ ArcZeroGrad
    \/ Forward
    \/ ManualBackward
    \/ ManualBackwardAbort
    \/ ArcStep
    \/ WZeroGrad
    \/ WStep

Spec == DriverInit /\ [][Next]_vars

\* ------------------------------------------- one choice module, its methods

\* the module init_fn(child) built for one choice node
Mod == 1

\* a .grad that is None; here a gradient is the vector of its values
NoGrad == <<>>
\* a call that returned None, and the results that are values
NoValue == <<>>

\* alpha = nn.Parameter(torch.randn(n) * 1e-3): distinct values
AlphaChoices(c) ==
    {a \in [0..(c - 1) -> 0..(c - 1)] :
        \A i, j \in 0..(c - 1) : a[i] = a[j] => i = j}

\* F.softmax(alpha, dim=-1) in exact arithmetic: probs[k] = SoftmaxW(a)[k] /
\* SoftmaxSum(a), the weights taken to base 2
SoftmaxW(a) == [k \in DOMAIN a |-> 2 ^ a[k]]
RECURSIVE SumTo(_, _)
SumTo(v, k) == IF k < 0 THEN 0 ELSE v[k] + SumTo(v, k - 1)
SoftmaxSum(a) == SumTo(SoftmaxW(a), Size(a) - 1)

\* the module as init_fn built it, nothing called on it yet
ModuleInit ==
    /\ train_dataloader = 0 /\ val_dataloader = 0
    /\ equal_len = FALSE /\ train_longer = FALSE
    /\ train_iter = NoIter /\ val_iter = NoIter /\ cur_iter = NoIter
    /\ source = "none" /\ yielded = <<>> /\ stopped = FALSE /\ iters = 0
    /\ policy = "none" /\ prevRun = NoRun
    /\ variant \in Variants
    /\ w_holds_arch = FALSE
    /\ kind \in [{Mod} -> {"layer", "input"}]
    /\ label = [n \in {Mod} |-> 1]
    /\ n_candidates \in [{Mod} -> CandCounts]
    /\ n_chosen \in [{Mod} -> ChosenCounts]
    /\ kind[Mod] = "layer" => n_chosen[Mod] = 1
    /\ parent = [n \in {Mod} |-> Root]
    /\ resampleCalls = [n \in {Mod} |-> 0]
    /\ nas_modules = <<>>
    /\ alphaRef = [n \in {Mod} |-> n]
    /\ alpha \in [{Mod} -> AlphaChoices(n_candidates[Mod])]
    /\ alphaGrad = [n \in {Mod} |-> NoGrad]
    /\ binary_gates = [n \in {Mod} |->
                          IF variant = "proxyless"
                          THEN InitGates(n_candidates[n]) ELSE <<>>]
    /\ gateGrad = [n \in {Mod} |-> NoGrad]
    /\ sampled = [n \in {Mod} |-> -1]
    /\ ctxActive = [n \in {Mod} |-> -1]
    /\ ctrl_optim = <<>>
    /\ wVal = <<>> /\ wGrad = <<>>
    /\ loss = NoLoss
    /\ batch_idx = 0
    /\ pc = "none"
    /\ trace = <<>>
    /\ phaseLog = <<>>
    /\ training \in BOOLEAN
    /\ lastCall = NoCall
    /\ opCalls = <<>>
    /\ budget = 0
    /\ obj = <<>>

\* what a call leaves in lastCall
Call(method, arg, raised, ret, prev) ==
    [method |-> method, arg |-> arg, mode |-> training, raised |-> raised,
     ret |-> ret, prev |-> prev]

\* the variables no method of the module writes
ModuleFrame ==
    /\ UNCHANGED <<graphVars, nas_modules, alphaRef, ctrl_optim, wVal, wGrad,
                   loss, batch_idx, pc, trace, phaseLog, resampleCalls, obj>>
    /\ UNCHANGED loaderVars

\* an optional argument that was not passed
NoArg == -1

\* ProxylessLayerChoice.resample(self) / ProxylessInputChoice.resample(self,
\* sample=None), called with arg (NoArg: no argument), the multinomial draw
\* giving drawn: the layer choice's signature takes no sample and its body
\* returns nothing
resample(k, c, arg, drawn) ==
    IF k = "layer"
    THEN IF arg # NoArg
         THEN [raised |-> "TypeError", new |-> ResampleNode(c, drawn),
               ret |-> NoValue]
         ELSE [raised |-> "none", new |-> ResampleNode(c, drawn),
               ret |-> NoValue]
    ELSE LET s == IF arg = NoArg THEN drawn ELSE arg
         IN [raised |-> "none", new |-> ResampleNode(c, s), ret |-> <<s>>]

ModResample ==
    /\ variant = "proxyless"
    /\ budget < MaxCalls
    /\ LET c == n_candidates[Mod] IN
       \E arg \in {NoArg} \cup 0..(c - 1), drawn \in 0..(c - 1) :
          LET r == resample(kind[Mod], c, arg, drawn) IN
          /\ lastCall' = Call("resample", arg, r.raised, r.ret, NoValue)
          /\ IF r.raised = "none"
             THEN /\ sampled' = [sampled EXCEPT ![Mod] = r.new.sampled]
                  /\ binary_gates' = [binary_gates EXCEPT ![Mod] = r.new.gates]
                  /\ gateGrad' = [gateGrad EXCEPT ![Mod] = Zeros(c)]
             ELSE UNCHANGED <<sampled, binary_gates, gateGrad>>
    /\ budget' = budget + 1
    /\ UNCHANGED <<alpha, alphaGrad, ctxActive, training, opCalls>>
    /\ ModuleFrame

\* the candidates a forward pass runs, each how often: DartsLayerChoice /
\* DartsInputChoice loop over all of them, the sampled-path modules in
\* training mode run run_function(ops, self.sampled) only
ForwardCallsMutant(v, c, s) == [k \in 0..(c - 1) |-> 1]
ForwardCalls(v, c, s) ==
    IF v = "darts" THEN [k \in 0..(c - 1) |-> 1] ELSE OneHot(c, s)

\* forward(x) after a resample().  In eval mode the sampled-path modules
\* call super().forward, which nn.Module leaves unimplemented.
ModForward ==
    /\ budget < MaxCalls
    /\ variant = "proxyless" => sampled[Mod] # -1
    /\ LET c == n_candidates[Mod] IN
       IF variant = "proxyless" /\ ~training
       THEN /\ lastCall' = Call("forward", NoArg, "NotImplementedError",
                                NoValue, NoValue)
            /\ opCalls' = Zeros(c)
            /\ UNCHANGED ctxActive
       ELSE /\ opCalls' = ForwardCalls(variant, c, sampled[Mod])
            /\ lastCall' = Call("forward", NoArg, "none",
                                IF variant = "proxyless"
                                THEN <<sampled[Mod]>>
                                ELSE [i \in 1..c |-> i - 1],
                                NoValue)
            /\ ctxActive' = IF variant = "proxyless"
                            THEN [ctxActive EXCEPT ![Mod] = sampled[Mod]]
                            ELSE ctxActive
    /\ budget' = budget + 1
    /\ UNCHANGED <<alpha, alphaGrad, binary_gates, gateGrad, sampled, training>>
    /\ ModuleFrame

\* binary_grads[k] = torch.sum(out_k * grad_output): values of the data
BinaryGrads(c) ==
    {[k \in 0..(c - 1) |-> IF k = j THEN 2 ELSE -1] : j \in 0..(c - 1)}

\* x.grad += y
AddGrad(x, y) == [k \in DOMAIN x |-> x[k] + y[k]]

\* the active_id of the backward closure: forward passed self.sampled to
\* backward_function when it built the closure, so it is the path captured
\* then, not the path sampled when backward runs
ActiveIdMutant(captured, current) == current
ActiveId(captured, current) == captured

\* _ArchGradientFunction.backward for the last training-mode forward: the
\* layer choice's backward_function runs every candidate but the active one
\* and autograd adds binary_grads to _binary_gates.grad; the input choice's
\* reads self.num_input_candidates, which no code sets
ModBackward ==
    /\ variant = "proxyless"
    /\ budget < MaxCalls
    /\ ctxActive[Mod] # -1
    /\ LET c == n_candidates[Mod] IN
       IF kind[Mod] = "input"
       THEN /\ lastCall' = Call("backward", NoArg, "AttributeError", NoValue,
                                NoValue)
            /\ opCalls' = Zeros(c)
            /\ UNCHANGED gateGrad
       ELSE \E g \in BinaryGrads(c) :
               /\ lastCall' = Call("backward",
                                   ActiveId(ctxActive[Mod], sampled[Mod]),
                                   "none", NoValue, NoValue)
               /\ opCalls' = [k \in 0..(c - 1) |->
                                IF k # ActiveId(ctxActive[Mod], sampled[Mod])
                                THEN 1 ELSE 0]
               /\ gateGrad' = [gateGrad EXCEPT ![Mod] = AddGrad(@, g)]
    /\ ctxActive' = [ctxActive EXCEPT ![Mod] = -1]
    /\ budget' = budget + 1
    /\ UNCHANGED <<alpha, alphaGrad, binary_gates, sampled, training>>
    /\ ModuleFrame

\* finalize_grad, the double loop from (i, j) on: grad, the alpha.grad being
\* written, in units of 1 / SoftmaxSum^2; g = _binary_gates.grad; w, ws the
\* softmax weights and their sum
RECURSIVE FinalizeLoop(_, _, _, _, _, _)
FinalizeLoop(grad, g, w, ws, i, j) ==
    IF i >= Size(grad) THEN grad
    ELSE IF j >= Size(grad) THEN FinalizeLoop(grad, g, w, ws, i + 1, 0)
    ELSE FinalizeLoop(
             [grad EXCEPT ![i] =
                 @ + g[j] * w[j] * ((IF i = j THEN ws ELSE 0) - w[i])],
             g, w, ws, i, j + 1)

\* ProxylessLayerChoice.finalize_grad / ProxylessInputChoice.finalize_grad:
\* alpha.grad is created when absent, then the loops run; the input choice's
\* loop bound is self.num_input_candidates, which no code sets
finalize_grad(k, a, grad, g) ==
    LET zeroed == IF grad = NoGrad THEN Zeros(Size(a)) ELSE grad IN
    IF k = "input"
    THEN [raised |-> "AttributeError", grad |-> zeroed]
    ELSE [raised |-> "none",
          grad |-> FinalizeLoop(zeroed, g, SoftmaxW(a), SoftmaxSum(a), 0, 0)]

ModFinalizeGrad ==
    /\ variant = "proxyless"
    /\ budget < MaxCalls
    /\ sampled[Mod] # -1
    /\ LET r == finalize_grad(kind[Mod], alpha[Mod], alphaGrad[Mod],
                              gateGrad[Mod])
       IN /\ alphaGrad' = [alphaGrad EXCEPT ![Mod] = r.grad]
          /\ lastCall' = Call("finalize_grad", NoArg, r.raised, NoValue,
                              <<alphaGrad[Mod], gateGrad[Mod]>>)
    /\ budget' = budget + 1
    /\ UNCHANGED <<alpha, binary_gates, gateGrad, sampled, ctxActive, training,
                   opCalls>>
    /\ ModuleFrame

\* torch.argmax(alpha), and torch.argsort(-alpha) as a list
ArgMax(a) == CHOOSE k \in DOMAIN a : \A j \in DOMAIN a : a[j] <= a[k]
ArgSortDesc(a) ==
    [i \in 1..Size(a) |->
        CHOOSE k \in DOMAIN a :
            Cardinality({j \in DOMAIN a : a[j] > a[k]}) = i - 1]

\* export(): DartsLayerChoice names the candidate at argmax(alpha),
\* DartsInputChoice lists the n_chosen largest, ProxylessLayerChoice gives
\* argmax(alpha); ProxylessInputChoice defines no export
export(v, k, a, nc) ==
    IF v = "proxyless" /\ k = "input"
    THEN [raised |-> "AttributeError", ret |-> NoValue]
    ELSE IF k = "layer"
    THEN [raised |-> "none", ret |-> <<ArgMax(a)>>]
    ELSE [raised |-> "none", ret |-> SubSeq(ArgSortDesc(a), 1, nc)]

ModExport ==
    /\ budget < MaxCalls
    /\ LET r == export(variant, kind[Mod], alpha[Mod], n_chosen[Mod])
       IN lastCall' = Call("export", NoArg, r.raised, r.ret, NoValue)
    /\ budget' = budget + 1
    /\ UNCHANGED <<alpha, alphaGrad, binary_gates, gateGrad, sampled, ctxActive,
                   training, opCalls>>
    /\ ModuleFrame

\* parameter names: candidate k's parameter is k, alpha is AlphaName
AlphaName == -1

\* nn.Module.named_parameters() of a Darts module: its own alpha, then the
\* parameters of op_choices (an input choice holds no operations)
SuperNamedParameters(k, c) ==
    <<AlphaName>> \o (IF k = "layer" THEN [i \in 1..c |-> i - 1] ELSE <<>>)

\* DartsLayerChoice.named_parameters(self, recurse) /
\* DartsInputChoice.named_parameters(self, recurse): recurse has no default
named_parameters(k, c, recurse) ==
    IF recurse = NoArg
    THEN [raised |-> "TypeError", ret |-> NoValue]
    ELSE [raised |-> "none",
          ret |-> SelectSeq(SuperNamedParameters(k, c),
                            LAMBDA name : name # AlphaName)]

\* parameters(self): for _, p in self.named_parameters(): yield p
parameters(k, c) == named_parameters(k, c, NoArg)

ModParameters ==
    /\ variant = "darts"
    /\ budget < MaxCalls
    /\ LET r == parameters(kind[Mod], n_candidates[Mod])
       IN lastCall' = Call("parameters", NoArg, r.raised, r.ret, NoValue)
    /\ budget' = budget + 1
    /\ UNCHANGED <<alpha, alphaGrad, binary_gates, gateGrad, sampled, ctxActive,
                   training, opCalls>>
    /\ ModuleFrame

ModNamedParameters ==
    /\ variant = "darts"
    /\ budget < MaxCalls
    /\ \E recurse \in {NoArg, 0, 1} :
          LET r == named_parameters(kind[Mod], n_candidates[Mod], recurse)
          IN lastCall' = Call("named_parameters", recurse, r.raised, r.ret,
                              NoValue)
    /\ budget' = budget + 1
    /\ UNCHANGED <<alpha, alphaGrad, binary_gates, gateGrad, sampled, ctxActive,
                   training, opCalls>>
    /\ ModuleFrame

NextModule ==
    \/ ModResample
    \/ ModForward
    \/ ModBackward
    \/ ModFinalizeGrad
    \/ ModExport
    \/ ModParameters
    \/ ModNamedParameters

SpecModule == ModuleInit /\ [][NextModule]_vars

\* ------------------------------------------------------------- to_device

\* a Python value: its type, its own value (a tensor's device, a scalar's
\* value), and for a tuple, list or dict its elements in order, a dict's
\* keys beside them
Value(type, value, keys, items) ==
    [type |-> type, value |-> value, keys |-> keys, items |-> items]

Leaves ==
    {Value("tensor", "cpu", <<>>, <<>>), Value("int", "7", <<>>, <<>>),
     Value("float", "1.5", <<>>, <<>>), Value("str", "s", <<>>, <<>>),
     Value("NoneType", "None", <<>>, <<>>), Value("set", "{}", <<>>, <<>>)}

SeqsUpTo(S, n) == UNION {[1..k -> S] : k \in 0..n}

\* the tuples, lists and dicts of at most n elements taken from S
Containers(S, n) ==
    {Value(t, "", <<>>, items) :
        t \in {"tuple", "list"}, items \in SeqsUpTo(S, n)}
    \cup {Value("dict", "", [i \in DOMAIN items |-> i], items) :
              items \in SeqsUpTo(S, n)}

\* the values nested at most d deep: up to MaxWidth elements in the innermost
\* containers, one element in the containers around them
RECURSIVE Values(_)
Values(d) ==
    IF d = 0 THEN Leaves
    ELSE Values(d - 1)
             \cup Containers(Values(d - 1), IF d = 1 THEN MaxWidth ELSE 1)

Devices == {"cuda"}

\* obj.to(device)
MoveTensorMutant(t, device) == t
MoveTensor(t, device) == [t EXCEPT !.value = device]

\* to_device(obj, device): [raised, val, type], val the value returned, type
\* the type the ValueError names.  A tuple, list or dict is rebuilt element
\* by element in order, so the first element that raises ends the call.
RECURSIVE to_device(_, _)
to_device(o, device) ==
    IF o.type = "tensor"
    THEN [raised |-> "none", val |-> MoveTensor(o, device), type |-> ""]
    ELSE IF o.type \in {"tuple", "list", "dict"}
    THEN LET rs == [i \in DOMAIN o.items |-> to_device(o.items[i], device)]
             bad == {i \in DOMAIN rs : rs[i].raised # "none"}
         IN IF bad # {}
            THEN rs[CHOOSE i \in bad : \A j \in bad : i <= j]
            ELSE [raised |-> "none",
                  val |-> [o EXCEPT !.items = [i \in DOMAIN rs |-> rs[i].val]],
                  type |-> ""]
    ELSE IF o.type \in {"int", "float", "str"}
    THEN [raised |-> "none", val |-> o, type |-> ""]
    ELSE [raised |-> "ValueError", val |-> o, type |-> o.type]

\* a value a caller passes to to_device
ToDeviceInit ==
    /\ variant = "none" /\ w_holds_arch = FALSE
    /\ kind = <<>> /\ label = <<>> /\ n_candidates = <<>> /\ n_chosen = <<>>
    /\ parent = <<>> /\ resampleCalls = <<>>
    /\ training = TRUE /\ lastCall = NoCall /\ opCalls = <<>> /\ budget = 0
    /\ nas_modules = <<>> /\ alphaRef = <<>> /\ alpha = <<>> /\ alphaGrad = <<>>
    /\ binary_gates = <<>> /\ gateGrad = <<>> /\ sampled = <<>> /\ ctxActive = <<>>
    /\ ctrl_optim = <<>> /\ wVal = <<>> /\ wGrad = <<>> /\ loss = <<>>
    /\ batch_idx = 0 /\ pc = "none" /\ trace = <<>> /\ phaseLog = <<>>
    /\ train_dataloader = 0 /\ val_dataloader = 0
    /\ equal_len = FALSE /\ train_longer = FALSE
    /\ train_iter = NoIter /\ val_iter = NoIter /\ cur_iter = NoIter
    /\ source = "none" /\ yielded = <<>> /\ stopped = FALSE /\ iters = 0
    /\ policy = "none" /\ prevRun = NoRun
    /\ obj \in Values(MaxDepth)

\* one call to_device(obj, device); lastCall keeps the value returned in
\* ret, or the type the error names in prev
ToDevice ==
    /\ lastCall = NoCall
    /\ \E device \in Devices :
          LET r == to_device(obj, device) IN
          lastCall' = IF r.raised = "none"
                      THEN Call("to_device", device, "none", <<r.val>>, NoValue)
                      ELSE Call("to_device", device, r.raised, NoValue,
                                <<r.type>>)
    /\ UNCHANGED <<training, opCalls, budget, obj>>
    /\ UNCHANGED <<graphVars, nas_modules, alphaRef, alpha, alphaGrad,
                   binary_gates, gateGrad, sampled, ctxActive, ctrl_optim, wVal,
                   wGrad, loss, batch_idx, pc, trace, phaseLog, resampleCalls>>
    /\ UNCHANGED loaderVars

NextToDevice == ToDevice

SpecToDevice == ToDeviceInit /\ [][NextToDevice]_vars

\* ------------------------------------------------ properties of the driver

IsPrefix(a, b) == Len(a) <= Len(b) /\ \A i \in 1..Len(a) : a[i] = b[i]

\* setup has completed: the registry and the architecture optimizer exist
SetupDone == pc \notin {"none", "new", "replaced", "failed"}

\* the operations of one outer step, in the order the claim gives them
C1_StepOps == <<"resample", "arc_zero_grad", "forward_val", "backward_val",
                "arc_step",
                "resample", "w_zero_grad", "forward_train", "backward_train",
                "w_step">>

\* C1: a call of training_step executes resample, zero the architecture
\* optimizer, forward and backward on the validation batch, architecture
\* step, then resample, zero the weight optimizers, forward and backward on
\* the training batch, weight step: what a call has executed is always an
\* initial part of that sequence, a call that returned has executed all of
\* it, and the phases started so far alternate A, B, A, B, ...
C1_PhaseOrder ==
    /\ IsPrefix(trace, C1_StepOps)
    /\ (pc = "ready" /\ batch_idx > 0) => trace = C1_StepOps
    /\ \A i \in 1..Len(phaseLog) :
          phaseLog[i] = IF i % 2 = 1 THEN "A" ELSE "B"
    /\ pc = "ready" => Len(phaseLog) = 2 * batch_idx

\* C1 witness: two outer steps have returned, four phases A, B, A, B ran.
C1_Witness ==
    /\ pc = "ready" /\ batch_idx = 2
    /\ trace = C1_StepOps
    /\ phaseLog = <<"A", "B", "A", "B">>

\* C2: in the sampled-path variant, when the architecture optimizer is about
\* to step, finalize_grad() has run on every registry node since the backward
\* pass: alpha.grad exists and carries this phase's gate gradient.
C2_FinalizeBeforeArcStep ==
    (variant = "proxyless" /\ pc = "A_step") =>
        \A n \in RegistryNodes :
            /\ alphaGrad[alphaRef[n]] # NoneGrad
            /\ gateGrad[n] \subseteq alphaGrad[alphaRef[n]]

\* C3: when the architecture optimizer steps, the gradient on each of its
\* parameters holds contributions of the current step's validation loss only;
\* when the weight optimizers step, the gradient on each parameter they hold
\* holds contributions of the current step's training loss only.
C3_NoGradientLeak ==
    /\ pc = "A_step" =>
          \A s \in Range(ctrl_optim) :
              alphaGrad[s] = NoneGrad
                  \/ alphaGrad[s] \subseteq {<<"val", batch_idx>>}
    /\ pc = "B_step" =>
          /\ \A g \in WOpts : wGrad[g] = {<<"train", batch_idx>>}
          /\ w_holds_arch =>
                /\ \A s \in ModuleAlphas :
                      alphaGrad[s] = NoneGrad
                          \/ alphaGrad[s] \subseteq {<<"train", batch_idx>>}
                /\ \A n \in RegistryNodes :
                      gateGrad[n] = NoneGrad
                          \/ gateGrad[n] \subseteq {<<"train", batch_idx>>}

\* C3 witness: second outer step of the continuous-relaxation variant, the
\* architecture optimizer about to step on validation-only gradients while
\* the weights still carry the previous training contribution.
C3_Witness ==
    /\ pc = "A_step" /\ batch_idx = 1 /\ variant = "darts"
    /\ ctrl_optim # <<>>
    /\ \A s \in Range(ctrl_optim) : alphaGrad[s] = {<<"val", 1>>}
    /\ wGrad[1] = {<<"train", 0>>, <<"val", 1>>}

\* C7: after setup, in both variants, choice nodes that share a label hold
\* the same alpha storage and read identical alpha values.
C7_SharedAlpha ==
    SetupDone =>
        \A m1, m2 \in RegistryNodes :
            label[m1] = label[m2] =>
                alphaRef[m1] = alphaRef[m2] /\ AlphaOf(m1) = AlphaOf(m2)

\* C8: the architecture optimizer holds exactly one alpha entry per distinct
\* label of the registry, and every node's alpha is one of its entries.
C8_OneEntryPerLabel ==
    SetupDone =>
        /\ Len(ctrl_optim) = Cardinality({label[n] : n \in RegistryNodes})
        /\ \A n \in RegistryNodes : alphaRef[n] \in Range(ctrl_optim)

\* two choice nodes carry the same label but different candidate counts
Mismatch ==
    \E m1, m2 \in Nodes :
        label[m1] = label[m2] /\ n_candidates[m1] # n_candidates[m2]

\* C9: with a label/size mismatch in the graph, replacement returns no
\* registry, no architecture optimizer is built and no training step runs.
C9_MismatchFatal ==
    Mismatch =>
        /\ nas_modules = <<>>
        /\ ctrl_optim = <<>>
        /\ pc \in {"new", "failed"}

\* C10: on every sampled-path node, from a resample() on, the binary gate
\* has exactly n_chosen entries equal to 1, all others 0, the 1-entries at
\* the sampled path.
C10_GateOneHot ==
    \A n \in RegistryNodes :
        (variant = "proxyless" /\ sampled[n] # -1) =>
            /\ \A k \in DOMAIN binary_gates[n] : binary_gates[n][k] \in {0, 1}
            /\ Cardinality({k \in DOMAIN binary_gates[n] :
                               binary_gates[n][k] = 1}) = n_chosen[n]
            /\ binary_gates[n][sampled[n]] = 1

\* the resample() calls a node is due once the step has reached position p:
\* one from Phase A's resampling on, two from Phase B's resampling on
ResamplesDue(p) ==
    IF p \in {"A_zero_grad", "A_forward", "A_backward", "A_step", "B_resample"}
    THEN 1
    ELSE IF p \in {"B_zero_grad", "B_forward", "B_backward", "B_step"}
    THEN 2 ELSE 0

\* C11 as stated: in both variants every registry node has been resampled
\* once when Phase A's forward pass runs, twice when Phase B's forward pass
\* runs, and twice when the step has returned.
C11_ResampleEveryNode ==
    \A n \in RegistryNodes :
        /\ pc \in Range(StepOrder) => resampleCalls[n] = ResamplesDue(pc)
        /\ (pc = "ready" /\ batch_idx > 0) => resampleCalls[n] = 2

\* C11 amended: every step calls resample_architecture() once per phase,
\* before the phase's forward pass; in the sampled-path variant that call
\* resamples every registry node exactly once (once in Phase A, once more in
\* Phase B, twice in a step that returns), in the continuous-relaxation
\* variant it resamples no node at all.
C11_ResampleOncePerPhase ==
    /\ pc \in {"A_forward", "B_forward"} =>
          /\ trace[Len(trace) - 1] = "resample"
          /\ Cardinality({i \in DOMAIN trace : trace[i] = "resample"})
                = ResamplesDue(pc)
    /\ \A n \in RegistryNodes :
          IF variant = "proxyless"
          THEN /\ pc \in Range(StepOrder) =>
                     resampleCalls[n] = ResamplesDue(pc)
               /\ (pc = "ready" /\ batch_idx > 0) => resampleCalls[n] = 2
          ELSE resampleCalls[n] = 0

\* C11 witness: Phase B's forward pass of the second step of the sampled-path
\* variant is about to run and a registry node has been resampled twice.
C11_Witness ==
    /\ variant = "proxyless" /\ pc = "B_forward" /\ batch_idx = 1
    /\ \E n \in RegistryNodes : resampleCalls[n] = 2

\* C18: after replacement every choice node of the graph, whatever its depth,
\* has been replaced, and the registry holds exactly one (label, instance)
\* entry per node, the layer-choice pass's entries before the input-choice
\* pass's.
C18_AllReplaced ==
    pc \notin {"none", "new"} =>
        /\ \A n \in Nodes :
              Cardinality({i \in DOMAIN nas_modules :
                              nas_modules[i] = <<label[n], n>>}) = 1
        /\ Len(nas_modules) = NumNodes
        /\ \A i, j \in DOMAIN nas_modules :
              (kind[nas_modules[i][2]] = "layer"
                  /\ kind[nas_modules[j][2]] = "input") => i < j

\* a gradient buffer that is zero, or does not exist yet
IsZeroGrad(g) == g = {} \/ g = NoneGrad

C12_ResampleContract ==
    (variant = "proxyless" /\ lastCall.method = "resample") =>
        /\ lastCall.raised = "none"
        /\ sampled[Mod] \in 0..(n_candidates[Mod] - 1)
        /\ lastCall.arg # NoArg => sampled[Mod] = lastCall.arg
        /\ binary_gates[Mod] = OneHot(n_candidates[Mod], sampled[Mod])
        /\ gateGrad[Mod] = Zeros(n_candidates[Mod])
        /\ lastCall.ret = <<sampled[Mod]>>

\* C13: a training-mode forward of a sampled-path module after resample()
\* has run the sampled candidate once and no other candidate; a forward of a
\* continuous-relaxation module has run each of its candidates once.
C13_ForwardRuns ==
    lastCall.method = "forward" =>
        /\ variant = "proxyless" /\ lastCall.mode =>
              /\ DOMAIN opCalls = 0..(n_candidates[Mod] - 1)
              /\ opCalls[sampled[Mod]] = 1
              /\ \A k \in DOMAIN opCalls : k # sampled[Mod] => opCalls[k] = 0
        /\ variant = "darts" =>
              /\ DOMAIN opCalls = 0..(n_candidates[Mod] - 1)
              /\ \A k \in DOMAIN opCalls : opCalls[k] = 1

\* C13 witness: a sampled-path layer choice of three candidates, resampled to
\* the last one, has run a training-mode forward: that candidate ran once.
C13_Witness ==
    /\ variant = "proxyless" /\ kind[Mod] = "layer" /\ n_candidates[Mod] = 3
    /\ lastCall.method = "forward" /\ lastCall.mode
    /\ sampled[Mod] = 2
    /\ opCalls[2] = 1 /\ opCalls[0] = 0 /\ opCalls[1] = 0

\* C14: an eval-mode forward of a sampled-path module after resample()
\* returns normally, has run the sampled candidate and no other, and returns
\* that candidate's output.
C14_EvalForward ==
    (variant = "proxyless" /\ lastCall.method = "forward" /\ ~lastCall.mode) =>
        /\ lastCall.raised = "none"
        /\ opCalls = OneHot(n_candidates[Mod], sampled[Mod])
        /\ lastCall.ret = <<sampled[Mod]>>

\* C15: export() of every choice module of both variants returns normally,
\* the index of the largest alpha for a layer choice, the indices of the
\* n_chosen largest alphas for an input choice.
C15_ExportFromAlpha ==
    lastCall.method = "export" =>
        /\ lastCall.raised = "none"
        /\ Len(lastCall.ret) = n_chosen[Mod]
        /\ \A i, j \in 1..Len(lastCall.ret) :
              lastCall.ret[i] = lastCall.ret[j] => i = j
        /\ \A i \in 1..Len(lastCall.ret) :
              /\ lastCall.ret[i] \in DOMAIN alpha[Mod]
              /\ \A k \in DOMAIN alpha[Mod] \ Range(lastCall.ret) :
                    alpha[Mod][k] <= alpha[Mod][lastCall.ret[i]]

\* the claimed change of alpha.grad[i], in units of 1 / SoftmaxSum^2:
\* sum over j of g[j] * p[j] * ((i = j) - p[i])
C16_Term(g, i, j) ==
    g[j] * SoftmaxW(alpha[Mod])[j]
         * ((IF i = j THEN SoftmaxSum(alpha[Mod]) ELSE 0)
               - SoftmaxW(alpha[Mod])[i])
C16_Sum(g, i) ==
    C16_Term(g, i, 0) + C16_Term(g, i, 1)
        + (IF Size(g) = 3 THEN C16_Term(g, i, 2) ELSE 0)

\* C16: finalize_grad() of a sampled-path module, layer or input choice,
\* returns normally and leaves alpha.grad at its previous value (zero when
\* absent) plus sum_j g[j] p[j] ((i = j) - p[i]); for two candidates that is
\* [g0 p0 (1 - p0) - g1 p1 p0, g1 p1 (1 - p1) - g0 p0 p1].
C16_FinalizeGrad ==
    (variant = "proxyless" /\ lastCall.method = "finalize_grad") =>
        LET prev == IF lastCall.prev[1] = NoGrad
                    THEN Zeros(n_candidates[Mod]) ELSE lastCall.prev[1]
            g == lastCall.prev[2]
            w == SoftmaxW(alpha[Mod])
            ws == SoftmaxSum(alpha[Mod])
        IN /\ lastCall.raised = "none"
           /\ \A i \in DOMAIN prev :
                 alphaGrad[Mod][i] = prev[i] + C16_Sum(g, i)
           /\ n_candidates[Mod] = 2 =>
                 /\ alphaGrad[Mod][0] - prev[0]
                       = g[0] * w[0] * (ws - w[0]) - g[1] * w[1] * w[0]
                 /\ alphaGrad[Mod][1] - prev[1]
                       = g[1] * w[1] * (ws - w[1]) - g[0] * w[0] * w[1]

\* C17: parameters() and named_parameters() of a continuous-relaxation
\* module return normally and yield the parameter of every candidate
\* operation and never alpha.
C17_ParametersSkipAlpha ==
    (variant = "darts"
        /\ lastCall.method \in {"parameters", "named_parameters"}) =>
        /\ lastCall.raised = "none"
        /\ AlphaName \notin Range(lastCall.ret)
        /\ Range(lastCall.ret) = IF kind[Mod] = "layer"
                                 THEN 0..(n_candidates[Mod] - 1) ELSE {}

\* -------------------------------------------------- properties of to_device

\* every element of v, at any depth, is a tensor, tuple, list, dict, int,
\* float or string
RECURSIVE Supported(_)
Supported(v) ==
    /\ v.type \in {"tensor", "tuple", "list", "dict", "int", "float", "str"}
    /\ \A i \in DOMAIN v.items : Supported(v.items[i])

\* the types of the elements of v, at any depth, that are none of those
RECURSIVE OtherTypes(_)
OtherTypes(v) ==
    (IF v.type \in {"tensor", "tuple", "list", "dict", "int", "float", "str"}
     THEN {} ELSE {v.type})
    \cup UNION {OtherTypes(v.items[i]) : i \in DOMAIN v.items}

\* r is v with every tensor on the device: same container kinds, lengths
\* and keys, every scalar as it was
RECURSIVE MovedCopy(_, _, _)
MovedCopy(v, r, device) ==
    /\ r.type = v.type
    /\ r.keys = v.keys
    /\ r.value = IF v.type = "tensor" THEN device ELSE v.value
    /\ Len(r.items) = Len(v.items)
    /\ \A i \in DOMAIN v.items : MovedCopy(v.items[i], r.items[i], device)

\* C20: to_device on a value built from tensors, tuples, lists, dicts, ints,
\* floats and strings returns the same nesting with every tensor moved and
\* every scalar unchanged; on a value holding anywhere an element of another
\* type it raises an error naming the type of such an element and returns
\* no value.
C20_ToDevice ==
    lastCall.method = "to_device" =>
        IF Supported(obj)
        THEN /\ lastCall.raised = "none"
             /\ Len(lastCall.ret) = 1
             /\ MovedCopy(obj, lastCall.ret[1], lastCall.arg)
        ELSE /\ lastCall.raised = "ValueError"
             /\ lastCall.ret = NoValue
             /\ Len(lastCall.prev) = 1
             /\ lastCall.prev[1] \in OtherTypes(obj)

\* C20 witness: a dict holding a list of a tensor and an int came back with
\* the tensor on the device and the int unchanged.
C20_Witness ==
    /\ lastCall.method = "to_device" /\ lastCall.raised = "none"
    /\ obj.type = "dict" /\ Len(obj.items) = 1
    /\ obj.items[1].type = "list" /\ Len(obj.items[1].items) = 2
    /\ obj.items[1].items[1].type = "tensor"
    /\ obj.items[1].items[2].type = "int"
    /\ lastCall.ret[1].items[1].items[1].value = "cuda"
    /\ lastCall.ret[1].items[1].items[2] = obj.items[1].items[2]

\* ------------------------------------------ properties of either supplier

\* the sequence a supplier yields in its first iteration (C4, C5, C6)
C21_Fresh ==
    IF policy = "interleaved"
    THEN IF train_dataloader = 0 \/ val_dataloader = 0 THEN <<>>
         ELSE [i \in 1..InterleavedLen |->
                  << <<"train", (i - 1) % train_dataloader>>,
                     <<"val", (i - 1) % val_dataloader>> >>]
    ELSE [i \in 1..ConcatLen |->
             IF i <= train_dataloader
             THEN << <<"train", i - 1>>, "train" >>
             ELSE << <<"val", i - 1 - train_dataloader>>, "val" >>]

\* C21: whenever __iter__ was called (before, in the middle of or after an
\* iteration), what the supplier has yielded since is an initial part of a
\* fresh supplier's sequence, and all of it once exhaustion is signalled.
C21_Restartable ==
    iters >= 1 =>
        /\ IsPrefix(yielded, C21_Fresh)
        /\ stopped => yielded = C21_Fresh

\* C21 witness: an interleaved supplier over 2 train and 3 validation batches
\* was restarted after its third pair, the train stream already restarted
\* and exhaustion not yet signalled, and has then yielded all three pairs.
C21_Witness ==
    /\ policy = "interleaved" /\ train_dataloader = 2 /\ val_dataloader = 3
    /\ iters = 2
    /\ Len(prevRun.yielded) = 3 /\ ~prevRun.stopped
    /\ stopped /\ yielded = C21_Fresh /\ Len(yielded) = 3

\* C23: a next() call on a supplier that has signalled exhaustion, with no
\* __iter__ in between, signals exhaustion again and yields nothing.
C23_StaysExhausted ==
    [][(stopped /\ iters' = iters) => (stopped' /\ yielded' = yielded)]_vars

\* C23 witness: an interleaved supplier over 2 train and 3 validation
\* batches, exhausted; a further next() has restarted the train stream, taken
\* its first batch and signalled exhaustion again.
C23_Witness ==
    /\ policy = "interleaved" /\ train_dataloader = 2 /\ val_dataloader = 3
    /\ stopped /\ Len(yielded) = 3
    /\ train_iter = [loader |-> "train", pos |-> 1]

\* ------------------------------------------ further properties of the driver

\* the positions of training_step that belong to each phase
PhaseA == {"A_resample", "A_zero_grad", "A_forward", "A_backward", "A_step"}
PhaseB == {"B_resample", "B_zero_grad", "B_forward", "B_backward", "B_step"}

\* C22: in both variants no statement of Phase A changes the value of a
\* weight parameter and no statement of Phase B changes the value of an
\* architecture parameter.
C22_DisjointWrites ==
    [][/\ pc \in PhaseA => wVal' = wVal
       /\ pc \in PhaseB => alpha' = alpha]_vars

====
